---- MODULE Spec2Model ----
(***************************************************************************)
(* Model of pterodactyl-upload-action (src/src/index.js).                  *)
(*                                                                         *)
(* index.js holds two builds of the action.  They share main, uploadFile,  *)
(* decompressFile, deleteFile and the path helpers, and differ in the      *)
(* cleanup pass: the "recursive" build (lines 1-404) walks the remote tree *)
(* with deleteAllFilesInDirectory and minimatch, the "flat" build (lines   *)
(* 405-868) filters the files of one listing with filterFiles/isFileMatch. *)
(* The model runs either build (settings.build) against a panel whose      *)
(* answer to every request is chosen nondeterministically.                 *)
(*                                                                         *)
(* Strings that the code takes apart (paths, names, patterns) are          *)
(* sequences of one-character strings.                                     *)
(***************************************************************************)
EXTENDS Integers, Sequences, FiniteSets, TLC

\* ------------------------------------------------------------------------
\* Generic sequence helpers
\* ------------------------------------------------------------------------

Last(s) == s[Len(s)]

Front(s) == SubSeq(s, 1, Len(s) - 1)

Range(s) == {s[i] : i \in 1..Len(s)}

\* Array.prototype.some
Some(s, P(_)) == \E i \in 1..Len(s) : P(s[i])

\* String.prototype.endsWith("/")
EndsWithSlash(p) == Len(p) > 0 /\ Last(p) = "/"

\* Positions of character c in s.
Positions(s, c) == {i \in 1..Len(s) : s[i] = c}

MaxOf(S) == CHOOSE x \in S : \A y \in S : y <= x

\* String.prototype.toLowerCase, on the letters the model's names use.
UpperCase == <<"A", "G", "I", "L", "O", "P", "R", "T", "Z">>
LowerCase == <<"a", "g", "i", "l", "o", "p", "r", "t", "z">>

LowerChar(c) ==
    IF \E i \in 1..Len(UpperCase) : UpperCase[i] = c
    THEN LowerCase[CHOOSE i \in 1..Len(UpperCase) : UpperCase[i] = c]
    ELSE c

toLowerCase(s) == [i \in 1..Len(s) |-> LowerChar(s[i])]

\* ------------------------------------------------------------------------
\* path (posix)
\* ------------------------------------------------------------------------

\* String.prototype.split("/")
RECURSIVE SplitSlash(_)
SplitSlash(s) ==
    IF Positions(s, "/") = {} THEN <<s>>
    ELSE LET i == CHOOSE k \in Positions(s, "/") : \A j \in Positions(s, "/") : k <= j
         IN  <<SubSeq(s, 1, i - 1)>> \o SplitSlash(SubSeq(s, i + 1, Len(s)))

\* Array.prototype.join("/")
RECURSIVE JoinSlash(_)
JoinSlash(segs) ==
    IF segs = <<>> THEN <<>>
    ELSE IF Len(segs) = 1 THEN segs[1]
    ELSE segs[1] \o <<"/">> \o JoinSlash(Tail(segs))

\* normalizeString of path.posix: drops empty and "." segments and resolves
\* ".." against the segments kept so far.
RECURSIVE NormSegs(_, _, _)
NormSegs(segs, acc, isAbs) ==
    IF segs = <<>> THEN acc
    ELSE LET s == Head(segs) IN
         IF s = <<>> \/ s = <<".">> THEN NormSegs(Tail(segs), acc, isAbs)
         ELSE IF s = <<".", ".">> THEN
              IF acc # <<>> /\ Last(acc) # <<".", ".">>
              THEN NormSegs(Tail(segs), Front(acc), isAbs)
              ELSE IF isAbs THEN NormSegs(Tail(segs), acc, isAbs)
              ELSE NormSegs(Tail(segs), Append(acc, s), isAbs)
         ELSE NormSegs(Tail(segs), Append(acc, s), isAbs)

\* path.posix.normalize
normalize(p) ==
    IF p = <<>> THEN <<".">>
    ELSE LET isAbs == p[1] = "/"
             trail == EndsWithSlash(p)
             body  == JoinSlash(NormSegs(SplitSlash(p), <<>>, isAbs))
         IN  IF body = <<>>
             THEN (IF isAbs THEN <<"/">> ELSE IF trail THEN <<".", "/">> ELSE <<".">>)
             ELSE (IF isAbs THEN <<"/">> ELSE <<>>) \o body
                  \o (IF trail THEN <<"/">> ELSE <<>>)

\* path.join(a, b): the non-empty arguments joined by "/" and normalized.
join(a, b) ==
    IF a = <<>> /\ b = <<>> THEN <<".">>
    ELSE IF a = <<>> THEN normalize(b)
    ELSE IF b = <<>> THEN normalize(a)
    ELSE normalize(a \o <<"/">> \o b)

\* Removes the trailing slashes of p (all of them; p may become empty).
RECURSIVE StripTrailingSlashes(_)
StripTrailingSlashes(p) ==
    IF EndsWithSlash(p) THEN StripTrailingSlashes(Front(p)) ELSE p

\* path.basename(p)
basename(p) ==
    LET q == StripTrailingSlashes(p)
    IN  IF Positions(q, "/") = {} THEN q
        ELSE SubSeq(q, MaxOf(Positions(q, "/")) + 1, Len(q))

\* path.dirname(p)
dirname(p) ==
    IF p = <<>> THEN <<".">>
    ELSE LET q == StripTrailingSlashes(p)
         IN  IF q = <<>> THEN <<"/">>
             ELSE IF Positions(q, "/") = {} THEN <<".">>
             ELSE LET d == StripTrailingSlashes(SubSeq(q, 1, MaxOf(Positions(q, "/")) - 1))
                  IN  IF d = <<>> THEN (IF q[1] = "/" THEN <<"/">> ELSE <<".">>) ELSE d

\* path.extname(p): from the last "." of the base name to its end; empty when
\* there is no "." or the only "." opens the base name.
extname(p) ==
    LET b    == basename(p)
        dots == Positions(b, ".")
    IN  IF dots = {} THEN <<>>
        ELSE LET d == MaxOf(dots)
             IN  IF d = 1 \/ b = <<".", ".">> THEN <<>> ELSE SubSeq(b, d, Len(b))

\* ------------------------------------------------------------------------
\* Pattern matching
\* ------------------------------------------------------------------------

Magic == {"*", "?"}

HasMagic(p) == \E i \in 1..Len(p) : p[i] \in Magic

\* The regular expression a glob becomes, applied to the whole of f: "*" is
\* any run of characters, "?" is any one character, the rest is literal.
RECURSIVE GlobChars(_, _)
GlobChars(f, p) ==
    IF p = <<>> THEN f = <<>>
    ELSE IF Head(p) = "*"
         THEN GlobChars(f, Tail(p)) \/ (f # <<>> /\ GlobChars(Tail(f), p))
    ELSE IF Head(p) = "?"
         THEN f # <<>> /\ GlobChars(Tail(f), Tail(p))
    ELSE f # <<>> /\ Head(f) = Head(p) /\ GlobChars(Tail(f), Tail(p))

\* String.prototype.split(/\/+/)
SplitSlashes(s) ==
    LET parts == SplitSlash(s)
        keep  == {i \in 1..Len(parts) : parts[i] # <<>> \/ i = 1 \/ i = Len(parts)}
        Nth[k \in 0..Len(parts)] ==
            IF k = 0 THEN 0
            ELSE CHOOSE i \in keep : i > Nth[k - 1] /\ \A j \in keep : j > Nth[k - 1] => i <= j
    IN  [k \in 1..Cardinality(keep) |-> parts[Nth[k]]]

\* minimatch, one path segment against one pattern segment: a segment without
\* wildcards is compared literally; a wildcard never stands for a leading "."
\* (option dot is off) nor for an empty segment.
SegMatch(f, p) ==
    IF ~HasMagic(p) THEN f = p
    ELSE /\ f # <<>>
         /\ ~(Head(f) = "." /\ Head(p) \in Magic)
         /\ GlobChars(f, p)

GLOBSTAR == <<"*", "*">>

\* Minimatch.matchOne(file, pattern, partial = false)
RECURSIVE matchOne(_, _)
matchOne(file, pattern) ==
    IF pattern = <<>> THEN file = <<>> \/ file = << <<>> >>
    ELSE IF file = <<>> THEN FALSE
    ELSE IF Head(pattern) = GLOBSTAR THEN
         IF Len(pattern) = 1
         THEN \A i \in 1..Len(file) :
                  ~(file[i] # <<>> /\ Head(file[i]) = ".")
         ELSE \E k \in 0..Len(file) - 1 :
                  /\ \A i \in 1..k : ~(file[i] # <<>> /\ Head(file[i]) = ".")
                  /\ matchOne(SubSeq(file, k + 1, Len(file)), Tail(pattern))
    ELSE SegMatch(Head(file), Head(pattern)) /\ matchOne(Tail(file), Tail(pattern))

\* minimatch(f, pattern, { matchBase: true }), for patterns made of literal
\* characters, "*", "?" and "/" (no braces, classes, "!" or "#").
minimatch(f, pattern) ==
    IF pattern = <<>> THEN f = <<>>
    ELSE LET file     == SplitSlashes(f)
             pat      == SplitSlashes(pattern)
             nonEmpty == {i \in 1..Len(file) : file[i] # <<>>}
             filename == IF nonEmpty = {} THEN file[1] ELSE file[MaxOf(nonEmpty)]
         IN  matchOne(IF Len(pat) = 1 THEN <<filename>> ELSE file, pat)

normalizePattern(p) == IF EndsWithSlash(p) THEN Front(p) ELSE p

matchAnyPattern(name, relativePath, patterns) ==
    Some(patterns, LAMBDA pattern :
        \/ minimatch(name, normalizePattern(pattern))
        \/ minimatch(relativePath, normalizePattern(pattern)))

\* isFileMatch of the flat build: equality without wildcards, else a
\* case-insensitive regular expression anchored at both ends.
isFileMatch(fileName, pattern) ==
    IF ~HasMagic(pattern) THEN fileName = pattern
    ELSE GlobChars(toLowerCase(fileName), toLowerCase(pattern))

\* filterFiles(files, filesType, filesList): the names to delete.
filterFiles(files, filesType, filesList) ==
    IF filesList = <<>> THEN (IF filesType = "blacklist" THEN files ELSE <<>>)
    ELSE IF filesType = "whitelist"
    THEN SelectSeq(files, LAMBDA fileName :
             ~Some(filesList, LAMBDA pattern : isFileMatch(fileName, pattern)))
    ELSE SelectSeq(files, LAMBDA fileName :
             Some(filesList, LAMBDA pattern : isFileMatch(fileName, pattern)))

\* targetPath.replace(/^\//, "")
StripLeadingSlash(p) == IF p # <<>> /\ Head(p) = "/" THEN Tail(p) ELSE p

\* Mutant: the two modes are swapped.
shouldDelete_ModesSwapped(name, targetPath, filesType, filesList) ==
    LET relativePath == join(StripLeadingSlash(targetPath), name)
    IN  IF Len(filesList) > 0
        THEN IF filesType = "whitelist"
             THEN matchAnyPattern(name, relativePath, filesList)
             ELSE ~matchAnyPattern(name, relativePath, filesList)
        ELSE filesType = "whitelist"

\* shouldDelete of the recursive build, for one listed item.
shouldDelete(name, targetPath, filesType, filesList) ==
    LET relativePath == join(StripLeadingSlash(targetPath), name)
    IN  IF Len(filesList) > 0
        THEN IF filesType = "whitelist"
             THEN ~matchAnyPattern(name, relativePath, filesList)
             ELSE matchAnyPattern(name, relativePath, filesList)
        ELSE filesType = "whitelist"

\* isArchiveFile(fileName)
ArchiveExtensions ==
    { <<".", "z", "i", "p">>, <<".", "t", "a", "r">>,
      <<".", "t", "a", "r", ".", "g", "z">>, <<".", "t", "g", "z">>,
      <<".", "r", "a", "r">> }

isArchiveFile(fileName) == toLowerCase(extname(fileName)) \in ArchiveExtensions

\* getTargetFile(targetPath, source)
getTargetFile(targetPath, source) ==
    IF EndsWithSlash(targetPath) THEN join(targetPath, basename(source)) ELSE targetPath

\* ------------------------------------------------------------------------
\* Inputs of a run
\* ------------------------------------------------------------------------

\* The number of requests of one run that the panel answers other than with
\* the request's plain success.
MaxFaults == 3

\* uploadFile: while (!uploaded && retries < 3)
UploadAttempts == 3

\* deleteFile: error.response?.status === 403 && retries < 2
DeleteRetryLimit == 2

\* deleteFile: do ... while (retries < 3)
DeleteLoopLimit == 3

\* The status the model gives an error that carries no response (a network
\* error: error.response is undefined).
NetErr == 0

\* A rejected axios call: a status outside 2xx, or no response at all.  403 is
\* the one status the code tells apart (in deleteFile), so only deleteFile is
\* offered it.
Errors == {500, NetErr}

Forbidden == 403

Builds == {"recursive", "flat"}

Home      == <<"/", "h", "/">>
Here      == <<".", "/">>
Media     == <<"/", "m", "/">>
FixedFile == <<"/", "h", "/", "f", ".", "z", "i", "p">>

a_log    == <<"a", ".", "l", "o", "g">>
b_txt    == <<"b", ".", "t", "x", "t">>
c_log    == <<"c", ".", "l", "o", "g">>
sub      == <<"s", "u", "b">>
keep_txt == <<"k", "e", "e", "p", ".", "t", "x", "t">>
drop_txt == <<"d", "r", "o", "p", ".", "t", "x", "t">>

File(n) == [name |-> n, is_directory |-> FALSE]
Dir(n)  == [name |-> n, is_directory |-> TRUE]

\* Remote directory trees: directory path |-> its listing.
LogTree ==
    (Home :> <<File(a_log), File(b_txt), Dir(sub)>>)
    @@ (Home \o sub \o <<"/">> :> <<File(c_log)>>)

KeepTree ==
    (Home :> <<File(keep_txt), Dir(sub), File(drop_txt)>>)
    @@ (Home \o sub \o <<"/">> :> <<File(keep_txt), File(c_log)>>)

Trees == {LogTree, KeepTree}

PatternLists ==
    { <<>>,
      << <<"*", ".", "l", "o", "g">> >>,
      << keep_txt >>,
      << sub \o <<"/">>, <<"A", ".", "L", "O", "?">> >> }

\* Local sources as the glob returns them, with what lstat finds at upload time.
Src(p, k) == [path |-> p, kind |-> k]

app_zip  == Src(<<"b", "/", "a", "p", "p", ".", "z", "i", "p">>, "file")
pack_tgz == Src(<<"b", "/", "p", ".", "t", "a", "r", ".", "g", "z">>, "file")
APP_ZIP  == Src(<<"b", "/", "A", ".", "Z", "I", "P">>, "file")
note_txt == Src(<<"b", "/", "n", ".", "t", "x", "t">>, "file")
gone_txt == Src(<<"b", "/", "g", ".", "t", "x", "t">>, "missing")
dir_src  == Src(<<"b", "/", "d">>, "dir")

ServerLists == { <<"s1">>, <<"s1", "s2">> }

\* settings.targets: extra (source, target) pairs with the paths their glob yields.
TargetLists == { <<>>, << [paths |-> <<note_txt>>, target |-> Media] >> }

\* The uploads of one server in the order main performs them: fileSourcePaths to
\* targetPath (lines 46-58), then the paths of every element of targets to its
\* target (lines 60-79); with each, the targetFile lines 49 and 65 compute for it.
RECURSIVE TargetJobs(_)
TargetJobs(tg) ==
    IF tg = <<>> THEN <<>>
    ELSE [k \in 1..Len(Head(tg).paths) |->
             [source |-> Head(tg).paths[k], target |-> Head(tg).target]]
         \o TargetJobs(Tail(tg))

UploadJobs(src, tp, tg) ==
    LET all == [k \in 1..Len(src) |-> [source |-> src[k], target |-> tp]] \o TargetJobs(tg)
    IN  [k \in 1..Len(all) |->
            [source |-> all[k].source, target |-> all[k].target,
             targetFile |-> getTargetFile(all[k].target, all[k].source.path)]]

Settings(b, sv, src, tp, tg, del, ft, fl, dec, cmd, rs, tr) ==
    [build |-> b, serverIds |-> sv, fileSourcePaths |-> src, targetPath |-> tp,
     targets |-> tg, deleteFilesInDir |-> del, filesType |-> ft, filesList |-> fl,
     decompressTarget |-> dec, command |-> cmd, restart |-> rs, tree |-> tr,
     jobs |-> UploadJobs(src, tp, tg)]

\* Runs that exercise the cleanup pass: one plain file to upload afterwards.
CleanupRuns ==
    { Settings(b, <<"s1">>, <<note_txt>>, Home, <<>>, TRUE, ft, fl, FALSE, "", FALSE, tr) :
        b \in Builds, ft \in {"whitelist", "blacklist"}, fl \in PatternLists, tr \in Trees }

\* Runs that exercise the uploads and the post-upload steps on one server.
UploadRuns ==
    { Settings(tb[2], <<"s1">>, src, tb[1], <<>>, tb[3], "blacklist", <<>>, dec, cr[1], cr[2],
               LogTree) :
        tb \in { <<Home, "recursive", FALSE>>, <<Home, "flat", TRUE>>,
                 <<Here, "recursive", TRUE>>, <<Here, "flat", FALSE>>,
                 <<FixedFile, "recursive", TRUE>>, <<FixedFile, "flat", TRUE>>,
                 <<FixedFile, "flat", FALSE>> },
        src \in { <<>>, <<app_zip>>, <<note_txt, app_zip>>, <<pack_tgz>>, <<APP_ZIP>>,
                  <<gone_txt>>, <<note_txt, dir_src>>, <<gone_txt, note_txt>> },
        dec \in BOOLEAN,
        cr \in { <<"", FALSE>>, <<"say hi", TRUE>> } }

\* Runs with only one of console command and restart.
CommandRuns ==
    { Settings("flat", sv, <<note_txt>>, Home, <<>>, FALSE, "blacklist", <<>>, FALSE,
               cr[1], cr[2], LogTree) :
        sv \in ServerLists, cr \in { <<"", TRUE>>, <<"say hi", FALSE>> } }

\* Runs over two servers, with and without the extra targets.
FleetRuns ==
    { Settings(bd[1], <<"s1", "s2">>, src, Home, tg, bd[2], "whitelist", <<keep_txt>>, TRUE,
               "say hi", TRUE, KeepTree) :
        bd \in { <<"recursive", TRUE>>, <<"flat", FALSE>> },
        src \in { <<app_zip>>, <<note_txt, gone_txt>> },
        tg \in TargetLists }

Runs == CleanupRuns \cup UploadRuns \cup CommandRuns \cup FleetRuns

\* ------------------------------------------------------------------------
\* State
\* ------------------------------------------------------------------------

VARIABLES
    settings,     \* what getSettings and the globs of main produced
    panel,        \* "bounded": at most MaxFaults answers other than plain success,
                  \* every request recorded; "free": any answer at any time, no record
    pc,           \* the await main is suspended at, or "done" / "failed"
    serverIdx,    \* position in serverIds of the server being processed
    jobIdx,       \* position of the source being processed, over both upload loops
    targetFile,   \* main: targetFile of the source being processed
    retries,      \* uploadFile / deleteFile: retries
    uploaded,     \* uploadFile: uploaded
    lastUpload,   \* the last uploadFile call that returned, and the value it returned
    stack,        \* pending deleteAllFilesInDirectory / deleteFilesInDirectory calls
    log,          \* every request sent to the panel with the answer it got
    faults,       \* requests answered other than with plain success so far
    failure       \* messages given to core.setFailed

vars == <<settings, panel, pc, serverIdx, jobIdx, targetFile, retries, uploaded, lastUpload,
          stack, log,
          faults, failure>>

\* main, lines 46-79: the uploads of one server and the remote path of each.
Jobs(st) == st.jobs

TargetFileOf(st, j) == st.jobs[j].targetFile

Ctl(p, i, j, stk) == [pc |-> p, serverIdx |-> i, jobIdx |-> j, stack |-> stk]

\* Mutant: the path of the call lacks its trailing separator.
Frame_NoSeparator(dir) ==
    [dir |-> Front(dir), phase |-> "list", items |-> <<>>, idx |-> 1, names |-> <<>>]

Frame(dir) == [dir |-> dir, phase |-> "list", items |-> <<>>, idx |-> 1, names |-> <<>>]

\* Mutant: the target path is not looked at.
CleanupEnabled_AnyTarget(st) == st.deleteFilesInDir

\* main, line 38: the cleanup pass runs for this server.
CleanupEnabled(st) == st.deleteFilesInDir /\ EndsWithSlash(st.targetPath)

\* Where main suspends next, from the top of the server loop with server i
\* (NextServer), from the top of the upload loops with source j (NextJob) and
\* after the upload loops (AfterJobs).
RECURSIVE NextServer(_, _)
AfterJobs(st, i) ==
    IF st.command # "" THEN Ctl("command", i, 0, <<>>)
    ELSE IF st.restart THEN Ctl("restart", i, 0, <<>>)
    ELSE NextServer(st, i + 1)

NextJob(st, i, j) ==
    IF j <= Len(Jobs(st)) THEN Ctl("validate", i, j, <<>>) ELSE AfterJobs(st, i)

NextServer(st, i) ==
    IF i > Len(st.serverIds) THEN Ctl("finish", i, 0, <<>>)
    ELSE IF CleanupEnabled(st) THEN Ctl("cleanup", i, 0, <<Frame(st.targetPath)>>)
    ELSE NextJob(st, i, 1)

\* main, lines 54 and 55 after uploadFile returned.
AfterUpload(st, i, j) ==
    IF st.decompressTarget /\ isArchiveFile(targetFile)
    THEN Ctl("decompress", i, j, <<>>)
    ELSE NextJob(st, i, j + 1)

\* Mutant: the command is sent between the two upload loops.
AfterCommand_BeforeTargets(st, i) == NextJob(st, i, Len(st.fileSourcePaths) + 1)

\* main, line 82 after sendConsoleCommand returned.
AfterCommand(st, i) ==
    IF st.restart THEN Ctl("restart", i, 0, <<>>) ELSE NextServer(st, i + 1)

Goto(c) ==
    /\ pc' = c.pc
    /\ serverIdx' = c.serverIdx
    /\ jobIdx' = c.jobIdx
    /\ stack' = c.stack

NoUpload == [serverIdx |-> 0, jobIdx |-> 0, attempts |-> 0, uploaded |-> FALSE,
             value |-> "undefined"]

Start ==
    /\ settings \in Runs
    /\ LET c == NextServer(settings, 1)
       IN  /\ pc = c.pc
           /\ serverIdx = c.serverIdx
           /\ jobIdx = c.jobIdx
           /\ stack = c.stack
    /\ targetFile = <<>>
    /\ retries = 0
    /\ uploaded = FALSE
    /\ lastUpload = NoUpload
    /\ log = <<>>
    /\ faults = 0
    /\ failure = <<>>

Init == panel = "bounded" /\ Start

\* The same runs against a panel that may answer every request in any way.
LiveInit == panel = "free" /\ Start

\* ------------------------------------------------------------------------
\* Requests
\* ------------------------------------------------------------------------

\* Mutant: the restart goes to the first server of the list.
ServerId_RestartFirst == settings.serverIds[IF pc = "restart" THEN 1 ELSE serverIdx]

\* serverId of the loop at line 36
ServerId == settings.serverIds[serverIdx]

Request(by, url, target, files, status) ==
    [by |-> by, server |-> ServerId, url |-> url, target |-> target, files |-> files,
     job |-> jobIdx, status |-> status]

\* The panel answers a request: plain success `ok`, or any of `others` while
\* the fault budget lasts.
Answer(ok, others, status) ==
    /\ status \in {ok} \cup others
    /\ IF panel = "free" THEN faults' = faults
       ELSE /\ status # ok => faults < MaxFaults
            /\ faults' = IF status = ok THEN faults ELSE faults + 1

\* The request and its answer join the record of the run.
Record(e) == log' = IF panel = "free" THEN log ELSE Append(log, e)

\* Mutant: the catch of main records the failure and the run goes on.
Fail_KeepsGoing(message) ==
    /\ failure' = Append(failure, message)
    /\ UNCHANGED <<pc, serverIdx, jobIdx, stack>>

\* main, lines 86-88: the error reaches the catch of main.
Fail(message) ==
    /\ pc' = "failed"
    /\ failure' = Append(failure, message)
    /\ UNCHANGED <<serverIdx, jobIdx, stack>>

\* ------------------------------------------------------------------------
\* Cleanup pass
\* ------------------------------------------------------------------------

CleanupFn ==
    IF settings.build = "recursive" THEN "deleteAllFilesInDirectory"
    ELSE "deleteFilesInDirectory"

\* response.data.data || response.data of a successful list request
Listing(tree, dir) == IF dir \in DOMAIN tree THEN tree[dir] ELSE <<>>

ReplaceTop(stk, f) == Append(Front(stk), f)

\* The recursive build between two awaits.  Advance runs the for loop of the
\* innermost call from item idx on: it pushes a call for the first directory to
\* delete, or, at the end of the listing, stops at the delete request when
\* namesToDelete is not empty and returns to the caller when it is.  Return
\* resumes the caller after its await at line 359: line 361 pushes the name of
\* the directory the finished call was about.
RECURSIVE Advance(_, _)
Return(st, stk) ==
    LET callers == Front(stk)
    IN  IF callers = <<>> THEN <<>>
        ELSE LET c == Last(callers)
             IN  Advance(st, ReplaceTop(callers,
                     [c EXCEPT !.names = Append(@, c.items[c.idx].name),
                               !.idx = @ + 1, !.phase = "scan"]))

Advance(st, stk) ==
    LET top == Last(stk)
    IN  IF top.idx > Len(top.items)
        THEN IF Len(top.names) > 0
             THEN ReplaceTop(stk, [top EXCEPT !.phase = "delete"])
             ELSE Return(st, stk)
        ELSE LET item == top.items[top.idx]
             IN  IF shouldDelete(item.name, top.dir, st.filesType, st.filesList)
                 THEN IF item.is_directory
                      THEN Append(ReplaceTop(stk, [top EXCEPT !.phase = "child"]),
                                  Frame(top.dir \o item.name \o <<"/">>))
                      ELSE Advance(st, ReplaceTop(stk,
                               [top EXCEPT !.names = Append(@, item.name), !.idx = @ + 1]))
                 ELSE Advance(st, ReplaceTop(stk, [top EXCEPT !.idx = @ + 1]))

\* Mutant: the request carries only the first of the names to delete.
FlatPlan_FirstOnly(st, top, items) ==
    LET files        == SelectSeq(items, LAMBDA item : ~item.is_directory)
        allFileNames == [k \in 1..Len(files) |-> files[k].name]
        filesToDelete == filterFiles(allFileNames, st.filesType, st.filesList)
    IN  IF Len(allFileNames) = 0 \/ Len(filesToDelete) = 0 THEN <<>>
        ELSE << [top EXCEPT !.items = items, !.names = <<filesToDelete[1]>>,
                            !.phase = "delete"] >>

\* The flat build after its listing: the names of the entries that are not
\* directories, filtered; the call returns when either list is empty.
FlatPlan(st, top, items) ==
    LET files        == SelectSeq(items, LAMBDA item : ~item.is_directory)
        allFileNames == [k \in 1..Len(files) |-> files[k].name]
        filesToDelete == filterFiles(allFileNames, st.filesType, st.filesList)
    IN  IF Len(allFileNames) = 0 \/ Len(filesToDelete) = 0 THEN <<>>
        ELSE << [top EXCEPT !.items = items, !.names = filesToDelete, !.phase = "delete"] >>

AfterListing(st, stk, items) ==
    IF st.build = "recursive"
    THEN Advance(st, ReplaceTop(stk, [Last(stk) EXCEPT !.items = items, !.phase = "scan"]))
    ELSE FlatPlan(st, Last(stk), items)

AfterCleanupDelete(st, stk) ==
    IF st.build = "recursive" THEN Return(st, stk) ELSE <<>>

\* The cleanup pass goes on with the calls left, or main goes on to the uploads.
CleanupGoto(stk) ==
    IF stk = <<>> THEN Goto(NextJob(settings, serverIdx, 1))
    ELSE /\ stack' = stk
         /\ UNCHANGED <<pc, serverIdx, jobIdx>>

\* Mutant: the catch of the cleanup function logs the error of the list request
\* and does not rethrow it: the call returns as after an empty listing.
ListRequest_Swallow ==
    /\ pc = "cleanup"
    /\ Last(stack).phase = "list"
    /\ \E status \in {200} \cup Errors :
        /\ Answer(200, Errors, status)
        /\ Record(Request(CleanupFn, "files/list", Last(stack).dir, <<>>, status))
        /\ CleanupGoto(AfterListing(settings, stack,
                IF status = 200 THEN Listing(settings.tree, Last(stack).dir) ELSE <<>>))
        /\ UNCHANGED failure
    /\ UNCHANGED <<settings, panel, targetFile, retries, uploaded, lastUpload>>

\* axios.get(.../files/list) of the innermost cleanup call
ListRequest ==
    /\ pc = "cleanup"
    /\ Last(stack).phase = "list"
    /\ \E status \in {200} \cup Errors :
        /\ Answer(200, Errors, status)
        /\ Record(Request(CleanupFn, "files/list", Last(stack).dir, <<>>, status))
        /\ IF status = 200
           THEN /\ CleanupGoto(AfterListing(settings, stack,
                                            Listing(settings.tree, Last(stack).dir)))
                /\ UNCHANGED failure
           ELSE Fail([from |-> CleanupFn, status |-> status])
    /\ UNCHANGED <<settings, panel, targetFile, retries, uploaded, lastUpload>>

\* axios.post(.../files/delete) of the innermost cleanup call
CleanupDeleteRequest ==
    /\ pc = "cleanup"
    /\ Last(stack).phase = "delete"
    /\ \E status \in {204, 200} \cup Errors :
        /\ Answer(204, {200} \cup Errors, status)
        /\ Record(Request(CleanupFn, "files/delete", Last(stack).dir,
                                      Last(stack).names, status))
        /\ IF status \in {204, 200}
           THEN /\ CleanupGoto(AfterCleanupDelete(settings, stack))
                /\ UNCHANGED failure
           ELSE Fail([from |-> CleanupFn, status |-> status])
    /\ UNCHANGED <<settings, panel, targetFile, retries, uploaded, lastUpload>>

\* ------------------------------------------------------------------------
\* Uploads and post-upload steps
\* ------------------------------------------------------------------------

\* Mutant: a directory passes.
SourceValid_DirOk(kind) == kind # "missing"

\* validateSourceFile returns normally: lstat succeeds and finds no directory.
\* When lstat fails, or finds a directory and line 213 throws, the catch at
\* line 214 throws "does not exist".
SourceValid(kind) == kind = "file"

\* validateSourceFile(source) and fs.readFile(source), lines 48-50
ValidateSource ==
    /\ pc = "validate"
    /\ IF SourceValid(Jobs(settings)[jobIdx].source.kind)
       THEN /\ pc' = "upload"
            /\ targetFile' = TargetFileOf(settings, jobIdx)
            /\ retries' = 0
            /\ uploaded' = FALSE
            /\ UNCHANGED <<serverIdx, jobIdx, stack, failure>>
       ELSE /\ Fail([from |-> "validateSourceFile", status |-> "does not exist"])
            /\ UNCHANGED <<targetFile, retries, uploaded>>
    /\ UNCHANGED <<settings, panel, lastUpload, log, faults>>

\* The value uploadFile hands back to main: the function has no return statement.
UploadReturnValue(wasUploaded) == "undefined"

\* Mutant: the loop tests only the flag.
UploadLoopEnds_NoCeiling(wasUploaded, n) == wasUploaded

\* uploadFile leaves its loop once uploaded, or after the last attempt.
UploadLoopEnds(wasUploaded, n) == wasUploaded \/ ~(n < UploadAttempts)

\* Mutant: the catch rethrows an error that carries no response.
UploadRethrows_NetErr(status) == status = NetErr

\* The catch of uploadFile, lines 258-261, logs the error and throws nothing.
UploadRethrows(status) == FALSE

\* One pass of the while loop of uploadFile: the write request, its answer,
\* retries++, and the return to main when the loop condition fails.
WriteRequest ==
    /\ pc = "upload"
    /\ \E status \in {204, 200} \cup Errors :
        LET nowUploaded == status = 204
            nowRetries  == retries + 1
        IN  /\ Answer(204, {200} \cup Errors, status)
            /\ Record(Request("uploadFile", "files/write",
                               targetFile, <<>>, status))
            /\ uploaded' = nowUploaded
            /\ retries' = nowRetries
            /\ IF status \in Errors /\ UploadRethrows(status)
               THEN /\ Fail([from |-> "uploadFile", status |-> status])
                    /\ UNCHANGED lastUpload
               ELSE IF UploadLoopEnds(nowUploaded, nowRetries)
               THEN /\ lastUpload' = [serverIdx |-> serverIdx, jobIdx |-> jobIdx,
                                      attempts |-> nowRetries, uploaded |-> nowUploaded,
                                      value |-> UploadReturnValue(nowUploaded)]
                    /\ Goto(AfterUpload(settings, serverIdx, jobIdx))
                    /\ UNCHANGED failure
               ELSE UNCHANGED <<pc, serverIdx, jobIdx, stack, lastUpload, failure>>
    /\ UNCHANGED <<settings, panel, targetFile>>

\* decompressFile: the root sent is the directory of the file, "/" for ".".
apiRoot(file) ==
    IF dirname(file) = <<".">> THEN <<"/">> ELSE dirname(file)

\* Mutant: decompressFile catches the error, as uploadFile does, and main goes
\* on to deleteFile.
DecompressRequest_Swallow ==
    /\ pc = "decompress"
    /\ \E status \in {204} \cup Errors :
        /\ Answer(204, Errors, status)
        /\ Record(Request("decompressFile", "files/decompress", apiRoot(targetFile),
                           <<basename(targetFile)>>, status))
        /\ pc' = "deleteFile"
        /\ retries' = 0
        /\ UNCHANGED <<serverIdx, jobIdx, stack, failure>>
    /\ UNCHANGED <<settings, panel, targetFile, uploaded, lastUpload>>

DecompressRequest ==
    /\ pc = "decompress"
    /\ \E status \in {204} \cup Errors :
        /\ Answer(204, Errors, status)
        /\ Record(Request("decompressFile", "files/decompress",
                                      apiRoot(targetFile),
                                      <<basename(targetFile)>>, status))
        /\ IF status = 204
           THEN /\ pc' = "deleteFile"
                /\ retries' = 0
                /\ UNCHANGED <<serverIdx, jobIdx, stack, failure>>
           ELSE /\ Fail([from |-> "decompressFile", status |-> status])
                /\ UNCHANGED retries
    /\ UNCHANGED <<settings, panel, targetFile, uploaded, lastUpload>>

\* deleteFile, the catch at lines 307-314: an error is retried when it is a 403
\* and retries < 2.
DeleteRetries(status, n) == status = Forbidden /\ n < DeleteRetryLimit

\* One pass of the body of the do-while loop of deleteFile: the delete request
\* and its answer.  A 204 returns (line 305), an error that is not retried is
\* thrown (line 313), anything else reaches the loop test: a response other
\* than 204 by leaving the try block, a retried 403 by `continue`.
ArchiveDeleteRequest ==
    /\ pc = "deleteFile"
    /\ \E status \in {204, 200, Forbidden} \cup Errors :
        /\ Answer(204, {200, Forbidden} \cup Errors, status)
        /\ Record(Request("deleteFile", "files/delete", <<"/">>,
                                      <<targetFile>>, status))
        /\ IF status = 204
           THEN /\ Goto(NextJob(settings, serverIdx, jobIdx + 1))
                /\ UNCHANGED <<retries, failure>>
           ELSE IF status = 200
           THEN /\ pc' = "deleteLoop"
                /\ UNCHANGED <<serverIdx, jobIdx, stack, retries, failure>>
           ELSE IF DeleteRetries(status, retries)
           THEN /\ retries' = retries + 1
                /\ pc' = "deleteLoop"
                /\ UNCHANGED <<serverIdx, jobIdx, stack, failure>>
           ELSE /\ Fail([from |-> "deleteFile", status |-> status])
                /\ UNCHANGED retries
    /\ UNCHANGED <<settings, panel, targetFile, uploaded, lastUpload>>

\* deleteFile, line 315: while (retries < 3) starts the next pass; when the
\* test fails the function returns.
DeleteLoopTest ==
    /\ pc = "deleteLoop"
    /\ IF retries < DeleteLoopLimit
       THEN /\ pc' = "deleteFile"
            /\ UNCHANGED <<serverIdx, jobIdx, stack>>
       ELSE Goto(NextJob(settings, serverIdx, jobIdx + 1))
    /\ UNCHANGED <<settings, panel, targetFile, retries, uploaded, lastUpload, log, faults,
                   failure>>

\* sendConsoleCommand(serverId, command), line 81
CommandRequest ==
    /\ pc = "command"
    /\ \E status \in {204} \cup Errors :
        /\ Answer(204, Errors, status)
        /\ Record(Request("sendConsoleCommand", "command", <<>>, <<>>, status))
        /\ IF status = 204
           THEN /\ Goto(AfterCommand(settings, serverIdx))
                /\ UNCHANGED failure
           ELSE Fail([from |-> "sendConsoleCommand", status |-> status])
    /\ UNCHANGED <<settings, panel, targetFile, retries, uploaded, lastUpload>>

\* restartServer(serverId), line 82
RestartRequest ==
    /\ pc = "restart"
    /\ \E status \in {204} \cup Errors :
        /\ Answer(204, Errors, status)
        /\ Record(Request("restartServer", "power", <<>>, <<>>, status))
        /\ IF status = 204
           THEN /\ Goto(NextServer(settings, serverIdx + 1))
                /\ UNCHANGED failure
           ELSE Fail([from |-> "restartServer", status |-> status])
    /\ UNCHANGED <<settings, panel, targetFile, retries, uploaded, lastUpload>>

\* core.info("Done"), line 85
Finish ==
    /\ pc = "finish"
    /\ pc' = "done"
    /\ UNCHANGED <<settings, panel, targetFile, serverIdx, jobIdx, retries, uploaded,
                   lastUpload, stack, log, faults, failure>>

Next ==
    \/ ListRequest
    \/ CleanupDeleteRequest
    \/ ValidateSource
    \/ WriteRequest
    \/ DecompressRequest
    \/ ArchiveDeleteRequest
    \/ DeleteLoopTest
    \/ CommandRequest
    \/ RestartRequest
    \/ Finish

Spec == Init /\ [][Next]_vars

\* main runs on while it can: every awaited request is answered, in one way or
\* another, and the code that follows it runs.
LiveSpec == LiveInit /\ [][Next]_vars /\ WF_vars(Next)

\* ------------------------------------------------------------------------
\* Properties
\* ------------------------------------------------------------------------

Entries == DOMAIN log

\* Position of server id sv in serverIds (the ids of a run are distinct).
PositionOf(sv) == CHOOSE i \in DOMAIN settings.serverIds : settings.serverIds[i] = sv

\* The write requests of the uploadFile call for source j on server sv.
WritesOf(sv, j) ==
    {i \in Entries : log[i].url = "files/write" /\ log[i].server = sv /\ log[i].job = j}

IsCleanup(e) == e.by \in {"deleteAllFilesInDirectory", "deleteFilesInDirectory"}

\* A step that sends a request appends it to the log, with its answer.
Sends == Len(log') = Len(log) + 1 /\ SubSeq(log', 1, Len(log)) = log

Sent == Last(log')

\* C1: one call of uploadFile issues at most 3 write requests, and none after
\* the first one answered with HTTP 204: whenever a write request is sent, the
\* same call has sent at most two before it, and none of those got a 204.
C1_UploadBounded ==
    [][log' # log =>
        /\ Sends
        /\ Sent.url = "files/write" =>
               /\ Cardinality(WritesOf(Sent.server, Sent.job)) <= 2
               /\ \A i \in WritesOf(Sent.server, Sent.job) : log[i].status # 204]_vars

\* A call that made three write requests, the third answered 204 after two
\* failures, has returned.
C1_Witness ==
    /\ lastUpload.attempts = 3
    /\ lastUpload.uploaded
    /\ Cardinality(WritesOf(settings.serverIds[lastUpload.serverIdx], lastUpload.jobIdx)) = 3

\* C2: uploadFile never raises.  Whatever the answer to a write request, the
\* run does not fail at that step; the call either makes its next attempt or
\* returns to main, which goes on with the next step of the run.
C2_UploadNeverRaises ==
    [][pc = "upload" =>
        /\ failure' = failure
        /\ pc' \in {"upload", "decompress", "validate", "command", "restart", "cleanup",
                   "finish"}
        /\ pc' # "upload" =>
               /\ lastUpload'.serverIdx = serverIdx
               /\ lastUpload'.jobIdx = jobIdx]_vars

\* uploadFile returned after three attempts that met both a thrown network
\* error and a non-204 status, and main went on.
C2_Witness ==
    /\ lastUpload.attempts = 3
    /\ ~lastUpload.uploaded
    /\ pc \notin {"upload", "failed"}
    /\ \E i, k \in WritesOf(settings.serverIds[lastUpload.serverIdx], lastUpload.jobIdx) :
           log[i].status = NetErr /\ log[k].status = 200

\* C3: the value uploadFile returns tells a successful upload from an
\* exhausted one: what a successful call returns differs from what a call
\* returns whose three attempts all failed.
C3_OutcomeReported ==
    (lastUpload.jobIdx # 0 /\ lastUpload.uploaded) =>
        lastUpload.value # UploadReturnValue(FALSE)

\* Which of two requests to one server has to come first (C4).
IsFileStep(e) == e.url = "files/write" \/ e.by \in {"decompressFile", "deleteFile"}

MustPrecede(a, b) ==
    \/ IsCleanup(a) /\ b.url = "files/write"
    \/ IsFileStep(a) /\ b.url = "command"
    \/ a.url = "command" /\ b.url = "power"

\* C4: for each server, every cleanup list/delete request precedes every file
\* write; every write, decompress and archive-delete request precedes the
\* console command; and the console command precedes the restart: no request
\* is sent to a server after one that it has to precede.
C4_StepOrder ==
    [][log' # log =>
        /\ Sends
        /\ \A i \in Entries :
               log[i].server = Sent.server => ~MustPrecede(Sent, log[i])]_vars

\* One server got cleanup requests, a write, a decompress, an archive delete,
\* the console command and the restart.
C4_Witness ==
    \E sv \in Range(settings.serverIds) :
        \A u \in {"files/list", "files/write", "files/decompress", "files/delete",
                  "command", "power"} :
            \E i \in Entries : log[i].server = sv /\ log[i].url = u

\* C5: servers are processed in the order given with no interleaving: no
\* request is sent to a server after a request to a server at a later
\* position of the list.
C5_ServerOrder ==
    [][log' # log =>
        /\ Sends
        /\ \A i \in Entries : PositionOf(log[i].server) <= PositionOf(Sent.server)]_vars

\* Both servers of a run got requests, the second one a restart.
C5_Witness ==
    /\ Len(settings.serverIds) = 2
    /\ \E i, k \in Entries :
           /\ log[i].server = settings.serverIds[1]
           /\ log[k].server = settings.serverIds[2]
           /\ log[k].url = "power"

\* s ends with suf
EndsWith(s, suf) ==
    Len(s) >= Len(suf) /\ SubSeq(s, Len(s) - Len(suf) + 1, Len(s)) = suf

\* A path whose name ends, in any letter case, in one of the archive extensions.
NamedArchive(p) == \E e \in ArchiveExtensions : EndsWith(toLowerCase(p), e)

\* The requests of the upload of source j to server sv, in the order sent.
CallEntries(sv, j) == SelectSeq(log, LAMBDA e : e.server = sv /\ e.job = j)

\* main is past the upload loops' pass for source j on server sv.
Completed(sv, j) ==
    /\ pc # "failed"
    /\ \/ pc \in {"finish", "done"}
       \/ serverIdx > PositionOf(sv)
       \/ /\ serverIdx = PositionOf(sv)
          /\ pc # "cleanup"
          /\ jobIdx = 0 \/ jobIdx > j

Calls == Range(settings.serverIds) \X DOMAIN Jobs(settings)

\* C6: with decompression enabled, an archive uploaded to a directory target,
\* every request answered 204: the requests for that file are exactly one
\* write for the remote path, then one decompress with root = the directory of
\* the remote path and file = its base name, then one delete with root "/" and
\* files = [remote path].
C6_ArchiveSequence ==
    \A c \in Calls :
        LET remote == TargetFileOf(settings, c[2])
            sent   == CallEntries(c[1], c[2])
        IN  ( /\ settings.decompressTarget
              /\ EndsWithSlash(Jobs(settings)[c[2]].target)
              /\ NamedArchive(remote)
              /\ Completed(c[1], c[2])
              /\ \A k \in DOMAIN sent : sent[k].status = 204 )
            => /\ Len(sent) = 3
               /\ sent[1].url = "files/write" /\ sent[1].target = remote
               /\ sent[2].url = "files/decompress"
               /\ sent[2].target = dirname(remote)
               /\ sent[2].files = <<basename(remote)>>
               /\ sent[3].url = "files/delete"
               /\ sent[3].target = <<"/">>
               /\ sent[3].files = <<remote>>

\* An entry of the listing of dir matches a pattern of the list, as the
\* running build matches.
Matches(name, dir) ==
    IF settings.build = "recursive"
    THEN matchAnyPattern(name, join(StripLeadingSlash(dir), name), settings.filesList)
    ELSE Some(settings.filesList, LAMBDA pattern : isFileMatch(name, pattern))

CleanupDeletes == {i \in Entries : IsCleanup(log[i]) /\ log[i].url = "files/delete"}

EntryNames(dir) == {e.name : e \in Range(Listing(settings.tree, dir))}

\* C7: with a non-empty pattern list, the batch of a cleanup delete request
\* for a listed directory is, in blacklist mode, exactly the listed entries
\* (files and directories alike) that match a pattern and, in whitelist mode,
\* exactly the listed entries that match none.
C7_FilteredBatch ==
    settings.filesList # <<>> =>
        \A i \in CleanupDeletes :
            Range(log[i].files) =
                {n \in EntryNames(log[i].target) :
                    IF settings.filesType = "blacklist"
                    THEN Matches(n, log[i].target)
                    ELSE ~Matches(n, log[i].target)}

\* C8: with an empty pattern list, blacklist mode deletes every top-level
\* entry of a non-empty target directory (once the uploads to a server begin,
\* a cleanup delete request for the target directory naming all its entries
\* has been sent to it), and whitelist mode deletes nothing.
C8_EmptyListDefault ==
    (settings.filesList = <<>> /\ CleanupEnabled(settings)) =>
        IF settings.filesType = "blacklist"
        THEN \A w \in Entries :
                 (log[w].url = "files/write" /\ EntryNames(settings.targetPath) # {}) =>
                     \E i \in CleanupDeletes :
                         /\ log[i].server = log[w].server
                         /\ log[i].target = settings.targetPath
                         /\ Range(log[i].files) = EntryNames(settings.targetPath)
        ELSE CleanupDeletes = {}

\* C9: files/list requests and delete requests other than archive deletes are
\* sent only in a run with cleanup enabled and a default target path that
\* ends with "/".
C9_CleanupOnlyWhenEnabled ==
    \A i \in Entries :
        (log[i].url = "files/list" \/ (log[i].url = "files/delete" /\ log[i].by # "deleteFile"))
            => (settings.deleteFilesInDir /\ EndsWithSlash(settings.targetPath))

\* A run with cleanup requested for a target that is a file path reached its
\* end having sent requests, none of them a cleanup request.
C9_Witness ==
    /\ settings.deleteFilesInDir
    /\ ~EndsWithSlash(settings.targetPath)
    /\ pc = "done"
    /\ \E i \in Entries : log[i].url = "files/write"

\* C10: source validation is a hard stop.  No write request is ever sent for a
\* source that does not exist or is a directory; the step that validates such
\* a source sends nothing and ends the run with one failure signal; and a run
\* that has failed takes no further step.
C10_ValidationStops ==
    /\ [](\A i \in Entries :
            log[i].url = "files/write" => Jobs(settings)[log[i].job].source.kind = "file")
    /\ [][(pc = "validate" /\ Jobs(settings)[jobIdx].source.kind # "file") =>
            (pc' = "failed" /\ log' = log /\ Len(failure') = 1)]_vars
    /\ [][pc # "failed"]_vars

\* The second source of the first of two servers failed validation after the
\* first source was uploaded.
C10_Witness ==
    /\ pc = "failed"
    /\ Last(failure).from = "validateSourceFile"
    /\ Len(settings.serverIds) = 2 /\ serverIdx = 1
    /\ jobIdx = 2
    /\ \E i \in Entries : log[i].url = "files/write"

\* C11: every run terminates in a final state: whatever the panel answers, the
\* run eventually logs "Done" or signals its failure.
C11_Terminates == <>(pc \in {"done", "failed"})

\* An error answer that propagates out of the step that got it: any error of a
\* list, cleanup delete, decompress, archive delete, command or restart request
\* (Errors holds no 403, the status deleteFile may retry).
Propagated(e) == e.by # "uploadFile" /\ e.status \in Errors

\* C12: an error that propagates out of a step becomes exactly one failure
\* signal.  The step that gets such an error (or validates a source that is
\* missing or a directory) records that one failure and ends the run; a run
\* with a failure takes no further step, so it sends no further request and
\* never logs "Done"; and the failure signal is raised at most once.
C12_SingleFailure ==
    [][/\ failure = <<>>
       /\ Len(failure') <= 1
       /\ failure' # <<>> => pc' = "failed"
       /\ pc' = "done" => failure' = <<>>
       /\ (log' # log /\ Propagated(Sent)) =>
              failure' = <<[from |-> Sent.by, status |-> Sent.status]>>
       /\ (pc = "validate" /\ Jobs(settings)[jobIdx].source.kind # "file") =>
              Len(failure') = 1]_vars

\* The console command of the first of two servers failed: the restart of that
\* server and the whole second server were still to come.
C12_Witness ==
    /\ pc = "failed"
    /\ Len(failure) = 1
    /\ failure[1].from = "sendConsoleCommand"
    /\ Len(settings.serverIds) = 2 /\ serverIdx = 1
    /\ settings.restart
    /\ Last(log).url = "command"

\* The delete requests the deleteFile call for source j on server sv has sent.
DeletesOf(sv, j) ==
    {i \in Entries : log[i].by = "deleteFile" /\ log[i].server = sv /\ log[i].job = j}

\* C13: one call of deleteFile issues at most 3 delete requests, whatever the
\* answers, a response other than 204 counting as an attempt like an error:
\* whenever deleteFile sends a request, the same call has sent at most two
\* before it.
C13_DeleteBounded ==
    [][log' # log =>
        /\ Sends
        /\ Sent.by = "deleteFile" =>
               Cardinality(DeletesOf(Sent.server, Sent.job)) <= 2]_vars

\* C14: deleteFile retries after a failed attempt exactly when the failure is
\* a 403 and fewer than 3 attempts have been made.  An attempt that fails with
\* a 403 as the first or second request of its call is followed by another
\* request; an attempt that fails otherwise (another status, a network error,
\* or a 403 as the third or a later request) ends the run with that error at
\* once; and a 204 returns to main.
C14_RetryOn403Only ==
    [][/\ (log' # log /\ Sends /\ Sent.by = "deleteFile") =>
             LET attempts == Cardinality(DeletesOf(Sent.server, Sent.job)) + 1
             IN  /\ Sent.status \in Errors \cup {Forbidden} =>
                        IF Sent.status = Forbidden /\ attempts < 3
                        THEN pc' = "deleteLoop" /\ failure' = failure
                        ELSE /\ pc' = "failed"
                             /\ failure' = <<[from |-> "deleteFile", status |-> Sent.status]>>
                 /\ Sent.status = 204 => pc' \notin {"deleteLoop", "deleteFile", "failed"}
       /\ (pc = "deleteLoop" /\ Last(log).status = Forbidden) => pc' = "deleteFile"]_vars

\* C15: when three consecutive attempts of a deleteFile call each end in a 403
\* or in a response other than 204, deleteFile falls through: the third such
\* attempt raises nothing, and no fourth request follows it (the call returns
\* to main, which goes on).
C15_FallsThrough ==
    [][(log' # log /\ Sends /\ Sent.by = "deleteFile") =>
          LET earlier == DeletesOf(Sent.server, Sent.job)
          IN  /\ Cardinality(earlier) <= 2
              /\ (Cardinality(earlier) = 2 /\ Sent.status \in {Forbidden, 200}) =>
                     /\ failure' = failure
                     /\ pc' \notin {"failed", "deleteFile"}]_vars

\* The decompress requests for source j on server sv.
DecompressesOf(sv, j) ==
    {i \in Entries :
        log[i].url = "files/decompress" /\ log[i].server = sv /\ log[i].job = j}

\* C16: the decompress step is attempted exactly once per archive and never
\* retried, and its failure ends the run.  When uploadFile returns for an
\* archive with decompression enabled, the decompress request is the next
\* step; a decompress request is the first one for its file; a failed one
\* ends the run with that error; deleteFile sends a request only after the
\* decompress request for its file succeeded; and no request at all is sent
\* once a decompress request has failed.
C16_DecompressOnce ==
    [][/\ log' # log =>
             /\ Sends
             /\ \A i \in Entries :
                    log[i].url = "files/decompress" => log[i].status = 204
             /\ Sent.url = "files/decompress" =>
                    /\ DecompressesOf(Sent.server, Sent.job) = {}
                    /\ Sent.status # 204 =>
                           /\ pc' = "failed"
                           /\ failure' = <<[from |-> "decompressFile", status |-> Sent.status]>>
             /\ Sent.by = "deleteFile" =>
                    \E i \in DecompressesOf(Sent.server, Sent.job) : log[i].status = 204
       /\ (pc = "upload" /\ pc' # "upload" /\ settings.decompressTarget
              /\ isArchiveFile(targetFile)) => pc' = "decompress"
       /\ pc = "decompress" => (log' # log /\ Sent.url = "files/decompress")]_vars

\* The decompress request for the archive failed on the first of two servers,
\* after its upload: the archive delete and the second server were to come.
C16_Witness ==
    /\ pc = "failed"
    /\ Len(failure) = 1 /\ failure[1].from = "decompressFile"
    /\ Len(settings.serverIds) = 2 /\ serverIdx = 1
    /\ Len(log) >= 2
    /\ Last(log).url = "files/decompress"
    /\ log[Len(log) - 1].url = "files/write" /\ log[Len(log) - 1].status = 204

\* The run of the example of C17: blacklist mode, patterns ["*.log"], target
\* /h/ listing [a.log, b.txt, sub (dir)], sub listing [c.log].
LogExample ==
    /\ settings.filesType = "blacklist"
    /\ settings.filesList = << <<"*", ".", "l", "o", "g">> >>
    /\ settings.tree = LogTree
    /\ CleanupEnabled(settings)
    /\ settings.targetPath = Home

SubDir == Home \o sub \o <<"/">>

\* C17 as stated: in the example the pass issues a delete of {a.log} in the top
\* directory and a separate delete of {c.log} in sub: once the uploads to a
\* server begin, both requests have been sent to it.
C17_SubdirectoryFiltered ==
    LogExample =>
        \A w \in Entries :
            log[w].url = "files/write" =>
                /\ \E i \in CleanupDeletes :
                       /\ log[i].server = log[w].server
                       /\ log[i].target = Home /\ log[i].files = <<a_log>>
                /\ \E i \in CleanupDeletes :
                       /\ log[i].server = log[w].server
                       /\ log[i].target = SubDir /\ log[i].files = <<c_log>>

\* C17 amended: in blacklist mode the pass does not enter a subdirectory that
\* is not itself flagged for deletion.  Every cleanup request for a directory
\* other than the target path is for a listed subdirectory whose name matches
\* a pattern; in the example every cleanup request is for the top directory,
\* the pass ends with exactly one delete request, naming {a.log}, and sends no
\* list or delete request for sub.
C17_UnflaggedNotEntered ==
    [][/\ (log' # log /\ Sends /\ IsCleanup(Sent) /\ settings.filesType = "blacklist") =>
             /\ Sent.target # settings.targetPath =>
                    \E d \in DOMAIN settings.tree :
                        \E e \in Range(settings.tree[d]) :
                            /\ e.is_directory
                            /\ Sent.target = d \o e.name \o <<"/">>
                            /\ Matches(e.name, d)
             /\ LogExample =>
                    /\ Sent.target = Home
                    /\ Sent.url = "files/delete" => Sent.files = <<a_log>>
       /\ (LogExample /\ pc = "cleanup" /\ pc' \notin {"cleanup", "failed"}) =>
             Cardinality({i \in DOMAIN log' :
                 /\ IsCleanup(log'[i]) /\ log'[i].url = "files/delete"
                 /\ log'[i].server = ServerId}) = 1]_vars

\* The pass of the example ended on the recursive build after the delete of
\* {a.log} in the top directory, and the upload began.
C17_Witness ==
    /\ LogExample
    /\ settings.build = "recursive"
    /\ \E i \in CleanupDeletes :
           log[i].target = Home /\ log[i].files = <<a_log>> /\ log[i].status = 204
    /\ \E w \in Entries : log[w].url = "files/write"

\* The directories among the names of a cleanup delete request for `dir`.
NamedDirs(dir, files) ==
    {e.name : e \in {x \in Range(Listing(settings.tree, dir)) :
                         x.is_directory /\ x.name \in Range(files)}}

\* The earlier cleanup requests to the server of the request being sent.
Before == {i \in Entries : IsCleanup(log[i]) /\ log[i].server = Sent.server}

\* C18: the cleanup pass is depth-first.  A delete request that names a
\* directory follows the list request for that subdirectory, whose path is the
\* parent path, the name and a separator; no request for the subdirectory
\* follows the delete request of the parent that names it; a list request
\* for a path other than the target path is for a listed subdirectory and
\* ends in a separator; and the batch of a subdirectory is filtered with the
\* mode and patterns of the pass (with an empty pattern list the default that
\* applies is the subject of C8 and is left open here).
C18_DepthFirst ==
    [][(log' # log /\ Sends /\ IsCleanup(Sent)) =>
          /\ Sent.url = "files/delete" =>
                 \A n \in NamedDirs(Sent.target, Sent.files) :
                     \E i \in Before :
                         /\ log[i].url = "files/list"
                         /\ log[i].target = Sent.target \o n \o <<"/">>
                         /\ log[i].status = 200
          /\ \A i \in Before :
                 log[i].url = "files/delete" =>
                     \A n \in NamedDirs(log[i].target, log[i].files) :
                         Sent.target # log[i].target \o n \o <<"/">>
          /\ Sent.url = "files/list" =>
                 /\ EndsWithSlash(Sent.target)
                 /\ Sent.target # settings.targetPath =>
                        \E i \in Before :
                            /\ log[i].url = "files/list" /\ log[i].status = 200
                            /\ \E e \in Range(Listing(settings.tree, log[i].target)) :
                                   /\ e.is_directory
                                   /\ Sent.target = log[i].target \o e.name \o <<"/">>
          /\ (Sent.url = "files/delete" /\ Sent.target # settings.targetPath
                 /\ settings.filesList # <<>>) =>
                 Range(Sent.files) =
                     {n \in EntryNames(Sent.target) :
                         IF settings.filesType = "blacklist"
                         THEN Matches(n, Sent.target)
                         ELSE ~Matches(n, Sent.target)}]_vars

\* Whitelist [keep.txt] over /h/ = [keep.txt, sub (dir), drop.txt] and
\* /h/sub/ = [keep.txt, c.log]: list /h/, list /h/sub/, delete {c.log} in
\* /h/sub/, then delete {sub, drop.txt} in /h/.
C18_Witness ==
    /\ Len(log) >= 4
    /\ log[1].url = "files/list" /\ log[1].target = Home
    /\ log[2].url = "files/list" /\ log[2].target = SubDir
    /\ log[3].url = "files/delete" /\ log[3].target = SubDir /\ log[3].files = <<c_log>>
    /\ log[4].url = "files/delete" /\ log[4].target = Home
    /\ log[4].files = <<sub, drop_txt>>

\* The names the running build flags for deletion in the listing of dir, in
\* the order listed.
Flagged(dir) ==
    LET items == Listing(settings.tree, dir)
        names == [k \in 1..Len(items) |-> items[k].name]
    IN  IF settings.build = "recursive"
        THEN SelectSeq(names, LAMBDA n :
                 shouldDelete(n, dir, settings.filesType, settings.filesList))
        ELSE filterFiles(
                 SelectSeq(names, LAMBDA n : \E e \in Range(items) :
                                                e.name = n /\ ~e.is_directory),
                 settings.filesType, settings.filesList)

\* The cleanup delete requests among log entries 1..n sent to sv with root dir.
DeletesIn(entries, sv, dir) ==
    {i \in DOMAIN entries :
        /\ IsCleanup(entries[i]) /\ entries[i].url = "files/delete"
        /\ entries[i].server = sv /\ entries[i].target = dir}

\* C19: a planning pass over one directory issues at most one delete request
\* with that directory as root, carrying all the names flagged in its listing;
\* when no name is flagged it issues none and completes successfully.  A
\* cleanup delete request is the first one of its server for its directory
\* and names exactly the flagged names; and when the pass of a server ends
\* without error, each directory it listed got one delete request if it has
\* flagged names and none if it has not.
C19_OneBatchPerDirectory ==
    [][/\ (log' # log /\ Sends /\ IsCleanup(Sent) /\ Sent.url = "files/delete") =>
             /\ DeletesIn(log, Sent.server, Sent.target) = {}
             /\ Sent.files = Flagged(Sent.target)
             /\ Sent.files # <<>>
       /\ (pc = "cleanup" /\ pc' \notin {"cleanup", "failed"}) =>
             \A i \in DOMAIN log' :
                 (log'[i].url = "files/list" /\ log'[i].server = ServerId) =>
                     Cardinality(DeletesIn(log', ServerId, log'[i].target)) =
                         IF Flagged(log'[i].target) = <<>> THEN 0 ELSE 1]_vars

\* The flat build, blacklist mode with no pattern: one delete request carried
\* both files of /h/, and the upload began.
C19_Witness ==
    /\ settings.build = "flat"
    /\ \E i \in CleanupDeletes :
           log[i].target = Home /\ log[i].files = <<a_log, b_txt>>
    /\ Cardinality(CleanupDeletes) = 1
    /\ \E w \in Entries : log[w].url = "files/write"

\* C20: a failed list request, at any depth of the cleanup pass, is not
\* retried and aborts the pass, and a failed cleanup delete request likewise:
\* the step that gets the error ends the run with that error, and no request
\* (no list or delete for that directory or an ancestor, no upload to that
\* server, nothing else) is ever sent after a cleanup request that failed.
C20_CleanupFailureAborts ==
    [][log' # log =>
          /\ Sends
          /\ \A i \in Entries : IsCleanup(log[i]) => log[i].status \notin Errors
          /\ (IsCleanup(Sent) /\ Sent.status \in Errors) =>
                 /\ pc' = "failed"
                 /\ failure' = <<[from |-> Sent.by, status |-> Sent.status]>>]_vars

\* The list request for the subdirectory /h/sub/ failed after the listing of
\* /h/: the run ended with no delete request and no upload.
C20_Witness ==
    /\ pc = "failed"
    /\ Len(log) = 2
    /\ log[1].url = "files/list" /\ log[1].target = Home /\ log[1].status = 200
    /\ log[2].url = "files/list" /\ log[2].target = SubDir /\ log[2].status \in Errors
    /\ Len(failure) = 1 /\ failure[1].from = "deleteAllFilesInDirectory"

\* The files of the remote tree: the directory of each and its name.
RemoteFiles ==
    UNION { {[dir |-> d, name |-> e.name] : e \in {x \in Range(settings.tree[d]) :
                                                      ~x.is_directory}} :
            d \in DOMAIN settings.tree }

StartsWith(s, pre) == Len(s) >= Len(pre) /\ SubSeq(s, 1, Len(pre)) = pre

\* The panel, which deletes a named directory with all it holds, removes file
\* f when it carries out delete request e: e names f in its directory, or
\* names a directory that f lies in.
Removes(e, f) ==
    /\ e.url = "files/delete"
    /\ e.status \in {204, 200}
    /\ \/ e.target = f.dir /\ f.name \in Range(e.files)
       \/ \E n \in Range(e.files) : StartsWith(f.dir, e.target \o n \o <<"/">>)

\* C21: in whitelist mode with a non-empty pattern list, matching entries are
\* kept at every depth: no cleanup delete request the panel carries out
\* removes a remote file whose name or relative path matches a pattern, also
\* when the file lies in a subdirectory whose own name matches none.
C21_WhitelistKeepsMatches ==
    (settings.filesType = "whitelist" /\ settings.filesList # <<>>) =>
        \A i \in CleanupDeletes :
            \A f \in RemoteFiles :
                Matches(f.name, f.dir) => ~Removes(log[i], f)

\* C22: with decompression requested, the post-upload step runs for an
\* uploaded path whose name ends, in any letter case, in .zip, .tar, .tar.gz,
\* .tgz or .rar, and for no other path: when uploadFile returns, main goes on
\* to the decompress request exactly when the path is so named, and every
\* decompress and archive delete request is for such a path.
C22_ArchivesPostProcessed ==
    [][/\ (pc = "upload" /\ pc' # "upload" /\ settings.decompressTarget) =>
             (pc' = "decompress" <=> NamedArchive(targetFile))
       /\ (log' # log /\ Sends /\ Sent.by \in {"decompressFile", "deleteFile"}) =>
             (settings.decompressTarget /\ NamedArchive(targetFile))]_vars

\* C23: a decompress request, and the archive delete request after it, is
\* sent for a file only if an earlier write request for that file on that
\* server was answered with HTTP 204; after an upload that used up its
\* attempts no post-upload request is sent for the file.
C23_PostUploadAfterSuccess ==
    [][(log' # log /\ Sends /\ Sent.by \in {"decompressFile", "deleteFile"}) =>
          \E i \in WritesOf(Sent.server, Sent.job) : log[i].status = 204]_vars

\* C24: a run logs "Done" only if, for every server and every source file,
\* some write request for the file was answered with HTTP 204 and, for every
\* archive that was post-processed, an archive delete request was answered
\* with HTTP 204.
C24_DoneMeansSynced ==
    pc = "done" =>
        \A c \in Calls :
            /\ \E i \in WritesOf(c[1], c[2]) : log[i].status = 204
            /\ DecompressesOf(c[1], c[2]) # {} =>
                   \E i \in DeletesOf(c[1], c[2]) : log[i].status = 204

====
